---------------------------- MODULE Spec2Model ----------------------------
(***************************************************************************)
(* Crypto-bridge server (src/server.js): the response cache, the daily     *)
(* request counter, the Arkham event buffer and the merge/format pipeline, *)
(* as a state machine.  Text is a sequence of one-character strings, the   *)
(* clock is Date.now() in milliseconds counted from the process start, and *)
(* an absent (undefined) value is the empty sequence.                      *)
(***************************************************************************)
EXTENDS Integers, Sequences, FiniteSets, TLC

VARIABLES
    cache,              \* the Map at server.js:21, as its entries in insertion order
    dailyRequestCount,  \* server.js:22
    lastResetDate,      \* server.js:23
    arkhamEvents,       \* server.js:26
    now,                \* Date.now()
    inflight,           \* requests suspended at `await fetch` (server.js:282)
    resp,               \* the response last sent
    upstreamCalls,      \* history: fetch() calls issued in the current calendar day
    sequential,         \* history: no two of them were in flight at once
    nPut,               \* history: cache.set calls so far
    ingested,           \* history: events stored so far
    nReq, nPush, nTick  \* history: operations performed (the model's bounds)

vars == <<cache, dailyRequestCount, lastResetDate, arkhamEvents, now, inflight,
          resp, upstreamCalls, sequential, nPut, ingested, nReq, nPush, nTick>>

----------------------------------------------------------------------------
(* Bounds of the model *)
MaxReq == 2
MaxPush == 2
MaxTick == 2

(* Program constants *)
CACHE_DURATION == 1800000
MAX_REQUESTS_PER_DAY == 200
MAX_ARKHAM_EVENTS == 100
MAX_CACHE_ENTRIES == 50
MAX_SYMBOLS == 5
MAX_TITLE_LENGTH == 100
RECENT_HOURS == 24
MS_PER_DAY == 86400000

----------------------------------------------------------------------------
(* Text *)

Absent == <<>>

Min(a, b) == IF a < b THEN a ELSE b

SubString(s, n) == SubSeq(s, 1, Min(n, Len(s)))

Digits == <<"0", "1", "2", "3", "4", "5", "6", "7", "8", "9">>

WhiteSpace == {" ", "\t", "\n"}

LowerCase ==
    <<"a", "b", "c", "d", "e", "f", "g", "h", "i", "j", "k", "l", "m",
      "n", "o", "p", "q", "r", "s", "t", "u", "v", "w", "x", "y", "z">>

UpperCase ==
    <<"A", "B", "C", "D", "E", "F", "G", "H", "I", "J", "K", "L", "M",
      "N", "O", "P", "Q", "R", "S", "T", "U", "V", "W", "X", "Y", "Z">>

Range(f) == {f[i] : i \in DOMAIN f}

UpperOf == [c \in Range(LowerCase) |-> UpperCase[CHOOSE i \in 1..26 : LowerCase[i] = c]]

ToUpperChar(c) == IF c \in DOMAIN UpperOf THEN UpperOf[c] ELSE c

\* String.prototype.toUpperCase
toUpperCase(s) == [i \in 1..Len(s) |-> ToUpperChar(s[i])]

\* the class \w of a regular expression
WordChars == Range(Digits) \cup Range(LowerCase) \cup Range(UpperCase) \cup {"_"}

RECURSIVE NatToText(_)
NatToText(n) == IF n < 10 THEN <<Digits[n + 1]>> ELSE NatToText(n \div 10) \o <<Digits[(n % 10) + 1]>>

IntToText(n) == IF n < 0 THEN <<"-">> \o NatToText(-n) ELSE NatToText(n)

\* a number in a template literal: an integer in decimal, or NaN
NaN == <<"N", "a", "N">>

\* String.prototype.trim
RECURSIVE TrimLeft(_)
TrimLeft(s) == IF s # <<>> /\ Head(s) \in WhiteSpace THEN TrimLeft(Tail(s)) ELSE s

RECURSIVE TrimRight(_)
TrimRight(s) ==
    IF s # <<>> /\ s[Len(s)] \in WhiteSpace THEN TrimRight(SubSeq(s, 1, Len(s) - 1)) ELSE s

trim(s) == TrimRight(TrimLeft(s))

\* String.prototype.split(sep) for a one-character separator: the stretches between
\* the occurrences of sep
split(s, sep) ==
    LET cuts == {i \in 1..Len(s) : s[i] = sep}
        Cut(k) == IF k = 0 THEN 0
                  ELSE IF k > Cardinality(cuts) THEN Len(s) + 1
                  ELSE CHOOSE i \in cuts : Cardinality({j \in cuts : j < i}) = k - 1
    IN  [k \in 1..(Cardinality(cuts) + 1) |-> SubSeq(s, Cut(k - 1) + 1, Cut(k) - 1)]

\* Array.prototype.join(sep)
RECURSIVE join(_, _)
join(parts, sep) ==
    IF parts = <<>> THEN <<>>
    ELSE IF Len(parts) = 1 THEN parts[1]
    ELSE parts[1] \o <<sep>> \o join(Tail(parts), sep)

DigitOf == [c \in Range(Digits) |-> (CHOOSE i \in 1..10 : Digits[i] = c) - 1]

\* the number parseInt reads: <<n>>, or <<>> for NaN
RECURSIVE DigitsValue(_, _, _)
DigitsValue(s, acc, seen) ==
    IF s # <<>> /\ Head(s) \in DOMAIN DigitOf
    THEN DigitsValue(Tail(s), 10 * acc + DigitOf[Head(s)], TRUE)
    ELSE IF seen THEN <<acc>> ELSE <<>>

parseInt(s) ==
    LET t == TrimLeft(s)
        neg == t # <<>> /\ Head(t) = "-"
        u == IF t # <<>> /\ Head(t) \in {"-", "+"} THEN Tail(t) ELSE t
        v == DigitsValue(u, 0, FALSE)
    IN  IF v = <<>> THEN <<>> ELSE IF neg THEN <<-v[1]>> ELSE v

\* .replace(/[|;]/g, ' ')
StripDelimiters(s) == [i \in 1..Len(s) |-> IF s[i] \in {"|", ";"} THEN " " ELSE s[i]]

\* .replace(/\s+/g, ' ')
\* (every white-space character that follows another one goes, the first becomes ' ')
CollapseSpaces(s) ==
    LET Kept(i) == ~(s[i] \in WhiteSpace /\ i > 1 /\ s[i - 1] \in WhiteSpace)
        kept == SelectSeq([i \in 1..Len(s) |-> i], Kept)
    IN  [k \in 1..Len(kept) |-> IF s[kept[k]] \in WhiteSpace THEN " " ELSE s[kept[k]]]

\* the title cleaning of server.js:123 (and 183-186, before the truncation)
CleanTitle(s) == trim(CollapseSpaces(StripDelimiters(s)))

----------------------------------------------------------------------------
(* Helper functions, server.js:34-70 *)

\* new Date().toDateString(): the calendar day of a clock value
toDateString(t) == t \div MS_PER_DAY

coinNames ==
    <<<<<<"B", "T", "C">>, <<"B", "i", "t", "c", "o", "i", "n">>>>,
      <<<<"E", "T", "H">>, <<"E", "t", "h", "e", "r", "e", "u", "m">>>>,
      <<<<"A", "D", "A">>, <<"C", "a", "r", "d", "a", "n", "o">>>>,
      <<<<"D", "O", "T">>, <<"P", "o", "l", "k", "a", "d", "o", "t">>>>,
      <<<<"S", "O", "L">>, <<"S", "o", "l", "a", "n", "a">>>>,
      <<<<"M", "A", "T", "I", "C">>, <<"P", "o", "l", "y", "g", "o", "n">>>>,
      <<<<"L", "I", "N", "K">>, <<"C", "h", "a", "i", "n", "l", "i", "n", "k">>>>,
      <<<<"U", "N", "I">>, <<"U", "n", "i", "s", "w", "a", "p">>>>,
      <<<<"A", "A", "V", "E">>, <<"A", "a", "v", "e">>>>,
      <<<<"D", "O", "G", "E">>, <<"D", "o", "g", "e", "c", "o", "i", "n">>>>,
      <<<<"X", "R", "P">>, <<"R", "i", "p", "p", "l", "e">>>>,
      <<<<"L", "T", "C">>, <<"L", "i", "t", "e", "c", "o", "i", "n">>>>,
      <<<<"B", "C", "H">>, <<"B", "i", "t", "c", "o", "i", "n", " ", "C", "a", "s", "h">>>>,
      <<<<"A", "V", "A", "X">>, <<"A", "v", "a", "l", "a", "n", "c", "h", "e">>>>>>

getCoinName(symbol) ==
    LET hits == {i \in 1..Len(coinNames) : coinNames[i][1] = toUpperCase(symbol)}
    IN  IF hits # {} THEN coinNames[CHOOSE i \in hits : TRUE][2] ELSE symbol

\* `${symbols || 'all'}_${keywords || 'general'}_${timeframe || '24'}`
generateCacheKey(symbols, keywords, timeframe) ==
    (IF symbols # Absent THEN symbols ELSE <<"a", "l", "l">>) \o <<"_">>
        \o (IF keywords # Absent THEN keywords ELSE <<"g", "e", "n", "e", "r", "a", "l">>) \o <<"_">>
        \o (IF timeframe # Absent THEN timeframe ELSE <<"2", "4">>)

\* a cache lookup result: <<entry>>, or <<>> when the key is not in the Map
CacheGet(c, key) ==
    LET hits == {i \in 1..Len(c) : c[i].key = key}
    IN  IF hits = {} THEN <<>> ELSE <<c[CHOOSE i \in hits : TRUE]>>

\* mutant: any entry found counts as valid
isValidCacheEntry_AnyAge(cacheEntry, t) == cacheEntry # <<>>

\* mutant: the age limit is inclusive
isValidCacheEntry_Inclusive(cacheEntry, t) ==
    cacheEntry # <<>> /\ t - cacheEntry[1].timestamp <= CACHE_DURATION

isValidCacheEntry(cacheEntry, t) ==
    cacheEntry # <<>> /\ t - cacheEntry[1].timestamp < CACHE_DURATION

\* mutant: setting an existing key moves it to the end (delete, then set)
CacheSet_MovesToEnd(c, entry) ==
    LET Other(e) == e.key # entry.key
    IN  Append(SelectSeq(c, Other), entry)

\* Map.prototype.set: a new key goes last, an existing key keeps its place
CacheSet(c, entry) ==
    IF \E i \in 1..Len(c) : c[i].key = entry.key
    THEN [i \in 1..Len(c) |-> IF c[i].key = entry.key THEN entry ELSE c[i]]
    ELSE Append(c, entry)

\* server.js:385-389: above the cap, delete the first key of the Map
CacheTrim(c) == IF Len(c) > MAX_CACHE_ENTRIES THEN Tail(c) ELSE c

\* resetDailyCountIfNeeded, as the pair <<dailyRequestCount, lastResetDate>> it leaves
resetDailyCountIfNeeded(count, resetDate, t) ==
    IF toDateString(t) # resetDate THEN <<0, toDateString(t)>> ELSE <<count, resetDate>>

----------------------------------------------------------------------------
(* Arkham webhook events, server.js:72-156 *)

\* a JSON value that is not a string (a number, an object): it has no string methods
NotAString == <<"[not a string]">>

CRYPTO == <<"C", "R", "Y", "P", "T", "O">>

DefaultTitle == <<"O", "n", "-", "c", "h", "a", "i", "n", " ", "a", "c", "t", "i", "v", "i", "t", "y", " ", "d", "e", "t", "e", "c", "t", "e", "d">>

\* (x).toFixed(1) of x = value / 1000000, for an integer value off the rounding ties
MillionsText(value) ==
    LET tenths == (value + 50000) \div 100000
    IN  <<"$">> \o NatToText(tenths \div 10) \o <<".">> \o NatToText(tenths % 10) \o <<"M">>

\* (x).toFixed(0) of x = value / 1000
ThousandsText(value) == <<"$">> \o NatToText((value + 500) \div 1000) \o <<"K">>

\* server.js:84-94: the ticker of a transaction (<<>> when it names none)
TxTicker(tx) ==
    IF tx.token # Absent THEN tx.token
    ELSE IF tx.asset # Absent THEN tx.asset
    ELSE tx.symbol

\* server.js:111-120: the fallback title (<<>> when the payload offers none)
FallbackTitle(webhookData) ==
    IF webhookData.alertName # Absent THEN webhookData.alertName
    ELSE IF webhookData.description # Absent
         THEN (IF webhookData.description = NotAString THEN NotAString
               ELSE SubString(webhookData.description, MAX_TITLE_LENGTH))
    ELSE IF webhookData.message # Absent
         THEN (IF webhookData.message = NotAString THEN NotAString
               ELSE SubString(webhookData.message, MAX_TITLE_LENGTH))
    ELSE Absent

\* processArkhamEvent: <<event>>, or <<>> for the null of the catch block
processArkhamEvent(webhookData, t) ==
    LET hasTx == webhookData.transaction # <<>>
        tx == webhookData.transaction[1]
        ticker == IF hasTx THEN TxTicker(tx) ELSE Absent
        symbol == IF ticker # Absent THEN toUpperCase(ticker) ELSE CRYPTO
        value == IF hasTx THEN tx.value ELSE 0
        amount == IF value > 1000000 THEN MillionsText(value)
                  ELSE IF value > 1000 THEN ThousandsText(value)
                  ELSE <<>>
        title1 == IF value = 0 THEN DefaultTitle
                  ELSE IF value > 1000000
                       THEN <<"L", "a", "r", "g", "e", " ">> \o symbol \o <<" ", "t", "r", "a", "n", "s", "f", "e", "r", ":", " ">> \o amount
                  ELSE IF value > 1000 THEN symbol \o <<" ", "t", "r", "a", "n", "s", "f", "e", "r", ":", " ">> \o amount
                  ELSE symbol \o <<" ", "m", "o", "v", "e", "m", "e", "n", "t", " ", "d", "e", "t", "e", "c", "t", "e", "d">>
        fallback == FallbackTitle(webhookData)
        title2 == IF title1 = DefaultTitle /\ fallback # Absent THEN fallback ELSE title1
    IN  IF ticker = NotAString \/ title2 = NotAString
        THEN <<>>
        ELSE <<[timestamp |-> t \div 1000,
                category |-> <<"O", "N", "C", "H", "A", "I", "N">>,
                symbol |-> symbol,
                title |-> CleanTitle(title2),
                amount |-> amount,
                raw |-> webhookData]>>

\* mutant: over capacity, the newest events are the ones dropped
addArkhamEvent_KeepsOldest(events, event) ==
    LET added == <<event>> \o events
    IN  IF Len(added) > MAX_ARKHAM_EVENTS
        THEN SubSeq(added, Len(added) - MAX_ARKHAM_EVENTS + 1, Len(added))
        ELSE added

\* addArkhamEvent: unshift, then slice(0, MAX_ARKHAM_EVENTS)
addArkhamEvent(events, event) ==
    LET added == <<event>> \o events
    IN  IF Len(added) > MAX_ARKHAM_EVENTS THEN SubSeq(added, 1, MAX_ARKHAM_EVENTS) ELSE added

getRecentArkhamEvents(events, hoursBack, t) ==
    LET cutoffTime == (t \div 1000) - hoursBack * 3600
        Recent(event) == event.timestamp > cutoffTime
    IN  SelectSeq(events, Recent)

----------------------------------------------------------------------------
(* formatForPineScript, server.js:158-225 *)

\* new Set(array): the distinct elements in order of first occurrence
RECURSIVE NewSet(_)
NewSet(s) ==
    IF s = <<>> THEN <<>>
    ELSE LET init == NewSet(SubSeq(s, 1, Len(s) - 1))
             last == s[Len(s)]
         IN  IF \E i \in 1..Len(init) : init[i] = last THEN init ELSE Append(init, last)

\* server.js:160: <<>> is the null of an absent (or empty) symbols parameter
SymbolSet(requestSymbols) ==
    IF requestSymbols = Absent THEN <<>>
    ELSE LET parts == split(toUpperCase(requestSymbols), ",")
         IN  NewSet([i \in 1..Len(parts) |-> trim(parts[i])])

SetHas(set, x) == \E i \in 1..Len(set) : set[i] = x

\* \b at the gap after character p of text (p = 0: before the first character)
WordBoundary(text, p) ==
    (p >= 1 /\ text[p] \in WordChars) # (p < Len(text) /\ text[p + 1] \in WordChars)

\* new RegExp(`\\b${word}\\b`, 'i').test(text), for a word with no regex operator in it
TestWord(word, text) ==
    LET upperText == toUpperCase(text)
        upperWord == toUpperCase(word)
    IN  \E p \in 0..(Len(text) - Len(word)) :
            /\ WordBoundary(text, p)
            /\ SubSeq(upperText, p + 1, p + Len(word)) = upperWord
            /\ WordBoundary(text, p + Len(word))

\* server.js:171-180
RECURSIVE DetectSymbol(_, _)
DetectSymbol(symbolSet, text) ==
    IF symbolSet = <<>> THEN CRYPTO
    ELSE IF TestWord(Head(symbolSet), text) \/ TestWord(getCoinName(Head(symbolSet)), text)
         THEN Head(symbolSet)
         ELSE DetectSymbol(Tail(symbolSet), text)

\* mutant: the timestamp is left in milliseconds
ArticleTimestamp_Millis(article, t) ==
    LET date == IF article.pubDate.given THEN article.pubDate
                ELSE IF article.published_at.given THEN article.published_at
                ELSE [given |-> TRUE, valid |-> TRUE, ms |-> t]
    IN  IF date.valid THEN IntToText(date.ms) ELSE NaN

\* server.js:167-168: Math.floor(new Date(pubDate || published_at || Date.now()).getTime() / 1000),
\* as the template literal prints it
ArticleTimestamp(article, t) ==
    LET date == IF article.pubDate.given THEN article.pubDate
                ELSE IF article.published_at.given THEN article.published_at
                ELSE [given |-> TRUE, valid |-> TRUE, ms |-> t]
    IN  IF date.valid THEN IntToText(date.ms \div 1000) ELSE NaN

\* server.js:183-187
ArticleTitle(article) ==
    SubString(CleanTitle(IF article.title # <<>> THEN article.title ELSE <<"N", "o", " ", "t", "i", "t", "l", "e">>),
              MAX_TITLE_LENGTH)

\* server.js:190
ArticleRecord(article, symbolSet, t) ==
    ArticleTimestamp(article, t) \o <<";", "N", "E", "W", "S", ";">>
        \o DetectSymbol(symbolSet, article.title \o <<" ">> \o article.description)
        \o <<";">> \o ArticleTitle(article)

\* mutant: the sentinel symbol is filtered like any other
ArkhamPasses_NoSentinel(arkhamEvent, symbolSet) ==
    ~(symbolSet # <<>> /\ ~SetHas(symbolSet, arkhamEvent.symbol))

\* server.js:205-210
ArkhamPasses(arkhamEvent, symbolSet) ==
    ~(symbolSet # <<>> /\ ~SetHas(symbolSet, arkhamEvent.symbol) /\ arkhamEvent.symbol # CRYPTO)

ArkhamRecord(arkhamEvent) ==
    IntToText(arkhamEvent.timestamp) \o <<";", "O", "N", "C", "H", "A", "I", "N", ";">> \o arkhamEvent.symbol
        \o <<";">> \o arkhamEvent.title

\* server.js:218-222: the comparator; a NaN result counts as 0 in Array.prototype.sort
CompareEvents(a, b) ==
    LET timestampA == parseInt(split(a, ";")[1])
        timestampB == parseInt(split(b, ";")[1])
    IN  IF timestampA = <<>> \/ timestampB = <<>> THEN 0 ELSE timestampB[1] - timestampA[1]

(* Array.prototype.sort as V8 runs it on fewer than 64 elements: the leading run is
   found (and reversed when strictly descending), then every later element is placed
   by binary insertion.  Indices are those of the 0-based work array. *)
RECURSIVE RunEnd(_, _, _)
RunEnd(w, idx, isDescending) ==
    IF idx >= Len(w) THEN Len(w)
    ELSE LET order == CompareEvents(w[idx + 1], w[idx])
         IN  IF (isDescending /\ order >= 0) \/ (~isDescending /\ order < 0)
             THEN idx
             ELSE RunEnd(w, idx + 1, isDescending)

Reverse(s) == [i \in 1..Len(s) |-> s[Len(s) + 1 - i]]

RECURSIVE InsertionPoint(_, _, _, _)
InsertionPoint(w, pivot, left, right) ==
    IF left >= right THEN left
    ELSE LET mid == left + ((right - left) \div 2)
         IN  IF CompareEvents(pivot, w[mid + 1]) < 0
             THEN InsertionPoint(w, pivot, left, mid)
             ELSE InsertionPoint(w, pivot, mid + 1, right)

RECURSIVE BinaryInsertionSort(_, _)
BinaryInsertionSort(w, start) ==
    IF start >= Len(w) THEN w
    ELSE LET pivot == w[start + 1]
             left == InsertionPoint(w, pivot, 0, start)
         IN  BinaryInsertionSort(
                 SubSeq(w, 1, left) \o <<pivot>> \o SubSeq(w, left + 1, start)
                     \o SubSeq(w, start + 2, Len(w)),
                 start + 1)

SortEvents(events) ==
    IF Len(events) < 2 THEN events
    ELSE LET isDescending == CompareEvents(events[2], events[1]) < 0
             runLength == RunEnd(events, 2, isDescending)
             w == IF isDescending
                  THEN Reverse(SubSeq(events, 1, runLength)) \o SubSeq(events, runLength + 1, Len(events))
                  ELSE events
         IN  BinaryInsertionSort(w, runLength)

\* the records pushed for the articles (server.js:163-196)
NewsRecords(articles, symbolSet, t) ==
    [i \in 1..Len(articles) |-> ArticleRecord(articles[i], symbolSet, t)]

\* the records pushed for the recent Arkham events (server.js:199-215)
OnchainRecords(events, symbolSet, t) ==
    LET recentArkhamEvents == getRecentArkhamEvents(events, RECENT_HOURS, t)
        Passes(arkhamEvent) == ArkhamPasses(arkhamEvent, symbolSet)
        kept == SelectSeq(recentArkhamEvents, Passes)
    IN  [i \in 1..Len(kept) |-> ArkhamRecord(kept[i])]

\* the array `events` as it stands at server.js:224
FormatEvents(articles, requestSymbols, events, t) ==
    LET symbolSet == SymbolSet(requestSymbols)
    IN  SortEvents(NewsRecords(articles, symbolSet, t) \o OnchainRecords(events, symbolSet, t))

formatForPineScript(articles, requestSymbols, events, t) ==
    join(FormatEvents(articles, requestSymbols, events, t), "|")

----------------------------------------------------------------------------
(* The routes, server.js:307-549 *)

\* fetchNewsFromAPI up to its rate-limit check (server.js:228-233): the counter and
\* reset date it leaves, and whether it goes on to call fetch()
RateLimitCheck(count, resetDate, t) ==
    LET reset == resetDailyCountIfNeeded(count, resetDate, t)
    IN  [count |-> reset[1], resetDate |-> reset[2],
         allowed |-> ~(reset[1] >= MAX_REQUESTS_PER_DAY)]

\* server.js:295, reached only after response.ok and response.json()
CountAfterSuccess(count) == count + 1

\* mutant: the limit is off by one
TooManySymbols_OffByOne(symbols) == symbols # Absent /\ Len(split(symbols, ",")) > MAX_SYMBOLS + 1

\* server.js:330
TooManySymbols(symbols) == symbols # Absent /\ Len(split(symbols, ",")) > MAX_SYMBOLS

\* mutant: a cache hit serves the text formatted when the entry was stored
HitBody_StoredText(cachedData, symbols, events, t) == cachedData[1].data

\* server.js:344-346: the body served on a cache hit
HitBody(cachedData, symbols, events, t) ==
    formatForPineScript(cachedData[1].articles, symbols, events, t)

\* server.js:355-359: the body served from the looked-up entry after a failed fetch
StaleBody(cachedData, symbols, events, t) ==
    formatForPineScript(cachedData[1].articles, symbols, events, t)

\* server.js:353-373: the catch block of the /crypto-news fetch; cachedData is the
\* entry the handler looked up before the fetch (a JSON string is never empty, so
\* `cachedData.articles` is truthy whenever the entry exists)
FailureResponse(cachedData, symbols, events, t) ==
    IF cachedData # <<>>
    THEN [kind |-> "stale", status |-> 200, body |-> StaleBody(cachedData, symbols, events, t)]
    ELSE LET formattedData == formatForPineScript(<<>>, symbols, events, t)
         IN  IF formattedData # <<>>
             THEN [kind |-> "onchain", status |-> 200, body |-> formattedData]
             ELSE [kind |-> "unavailable", status |-> 503, body |-> <<>>]

\* server.js:376: the body of a response to a fetch that succeeded
FreshBody(articles, symbols, events, t) == formatForPineScript(articles, symbols, events, t)

\* server.js:379-389: cache.set, then the size cap
CachePut(c, entry) == CacheTrim(CacheSet(c, entry))

NoResponse ==
    [route |-> "none", kind |-> "none", status |-> 0, body |-> <<>>, cause |-> "none",
     symbols |-> Absent, cacheKey |-> Absent, cachedData |-> <<>>, at |-> 0]

Respond(route, r, cause, symbols, cacheKey, cachedData) ==
    [route |-> route, kind |-> r.kind, status |-> r.status, body |-> r.body, cause |-> cause,
     symbols |-> symbols, cacheKey |-> cacheKey, cachedData |-> cachedData, at |-> now]

\* whether a clock step crosses midnight
NewDay(t1, t2) == toDateString(t1) # toDateString(t2)

\* GET /crypto-news, from the request to its response or to `await fetch`
CryptoNews(symbols, keywords, timeframe) ==
    /\ nReq < MaxReq
    /\ nReq' = nReq + 1
    /\ UNCHANGED <<arkhamEvents, now, nPush, nTick, nPut, ingested>>
    /\ LET cacheKey == generateCacheKey(symbols, keywords, timeframe)
           cachedData == CacheGet(cache, cacheKey)
           limit == RateLimitCheck(dailyRequestCount, lastResetDate, now)
       IN  IF TooManySymbols(symbols)
           THEN /\ resp' = Respond("news", [kind |-> "invalid", status |-> 400, body |-> <<>>],
                                   "none", symbols, Absent, <<>>)
                /\ UNCHANGED <<cache, dailyRequestCount, lastResetDate, inflight,
                               upstreamCalls, sequential>>
           ELSE IF isValidCacheEntry(cachedData, now)
           THEN /\ resp' = Respond("news",
                                   [kind |-> "hit", status |-> 200,
                                    body |-> HitBody(cachedData, symbols, arkhamEvents, now)],
                                   "none", symbols, cacheKey, cachedData)
                /\ UNCHANGED <<cache, dailyRequestCount, lastResetDate, inflight,
                               upstreamCalls, sequential>>
           ELSE /\ dailyRequestCount' = limit.count
                /\ lastResetDate' = limit.resetDate
                /\ UNCHANGED cache
                /\ IF limit.allowed
                   THEN /\ inflight' = inflight \cup
                               {[id |-> nReq + 1, route |-> "news", symbols |-> symbols,
                                 cacheKey |-> cacheKey, cachedData |-> cachedData, at |-> now]}
                        /\ upstreamCalls' = upstreamCalls + 1
                        /\ sequential' = (sequential /\ inflight = {})
                        /\ UNCHANGED resp
                   ELSE /\ resp' = Respond("news",
                                           FailureResponse(cachedData, symbols, arkhamEvents, now),
                                           "rate-limit", symbols, cacheKey, cachedData)
                        /\ UNCHANGED <<inflight, upstreamCalls, sequential>>

\* the fetch of a /crypto-news request succeeds with `articles`: server.js:294-299, 376-395
NewsFetchSucceeds(r, articles) ==
    /\ r \in inflight /\ r.route = "news"
    /\ inflight' = inflight \ {r}
    /\ dailyRequestCount' = CountAfterSuccess(dailyRequestCount)
    /\ LET formattedData == FreshBody(articles, r.symbols, arkhamEvents, now)
           known == CacheGet(cache, r.cacheKey)
       IN  /\ cache' = CachePut(cache, [key |-> r.cacheKey, data |-> formattedData,
                                        articles |-> articles, timestamp |-> now,
                                        ins |-> IF known # <<>> THEN known[1].ins ELSE nPut + 1])
           /\ resp' = Respond("news", [kind |-> "fresh", status |-> 200, body |-> formattedData],
                              "none", r.symbols, r.cacheKey, r.cachedData)
    /\ nPut' = nPut + 1
    /\ UNCHANGED <<lastResetDate, arkhamEvents, now, upstreamCalls, sequential,
                   nReq, nPush, nTick, ingested>>

\* the fetch of a /crypto-news request fails (network, timeout, status, body):
\* server.js:301-304, 353-373
NewsFetchFails(r) ==
    /\ r \in inflight /\ r.route = "news"
    /\ inflight' = inflight \ {r}
    /\ resp' = Respond("news", FailureResponse(r.cachedData, r.symbols, arkhamEvents, now),
                       "upstream", r.symbols, r.cacheKey, r.cachedData)
    /\ UNCHANGED <<cache, dailyRequestCount, lastResetDate, arkhamEvents, now, upstreamCalls,
                   sequential, nReq, nPush, nTick, nPut, ingested>>

\* GET /debug, from the request to `await fetch` or to its error response: server.js:407-410
Debug(symbols, keywords, timeframe) ==
    /\ nReq < MaxReq
    /\ nReq' = nReq + 1
    /\ LET limit == RateLimitCheck(dailyRequestCount, lastResetDate, now)
       IN  /\ dailyRequestCount' = limit.count
           /\ lastResetDate' = limit.resetDate
           /\ IF limit.allowed
              THEN /\ inflight' = inflight \cup
                          {[id |-> nReq + 1, route |-> "debug", symbols |-> symbols,
                            cacheKey |-> Absent, cachedData |-> <<>>, at |-> now]}
                   /\ upstreamCalls' = upstreamCalls + 1
                   /\ sequential' = (sequential /\ inflight = {})
                   /\ UNCHANGED resp
              ELSE /\ resp' = Respond("debug", [kind |-> "error", status |-> 500, body |-> <<>>],
                                      "rate-limit", symbols, Absent, <<>>)
                   /\ UNCHANGED <<inflight, upstreamCalls, sequential>>
    /\ UNCHANGED <<cache, arkhamEvents, now, nPush, nTick, nPut, ingested>>

\* the fetch of a /debug request succeeds: server.js:294-299, 411-420
DebugFetchSucceeds(r, articles) ==
    /\ r \in inflight /\ r.route = "debug"
    /\ inflight' = inflight \ {r}
    /\ dailyRequestCount' = CountAfterSuccess(dailyRequestCount)
    /\ resp' = Respond("debug",
                       [kind |-> "debug", status |-> 200,
                        body |-> formatForPineScript(articles, r.symbols, arkhamEvents, now)],
                       "none", r.symbols, Absent, <<>>)
    /\ UNCHANGED <<cache, lastResetDate, arkhamEvents, now, upstreamCalls, sequential,
                   nReq, nPush, nTick, nPut, ingested>>

\* the fetch of a /debug request fails: server.js:301-304, 421-426
DebugFetchFails(r) ==
    /\ r \in inflight /\ r.route = "debug"
    /\ inflight' = inflight \ {r}
    /\ resp' = Respond("debug", [kind |-> "error", status |-> 500, body |-> <<>>],
                       "upstream", r.symbols, Absent, <<>>)
    /\ UNCHANGED <<cache, dailyRequestCount, lastResetDate, arkhamEvents, now, upstreamCalls,
                   sequential, nReq, nPush, nTick, nPut, ingested>>

\* GET /health: server.js:310-322; the body is the remainingRequests figure
Health ==
    /\ nReq < MaxReq
    /\ nReq' = nReq + 1
    /\ LET reset == resetDailyCountIfNeeded(dailyRequestCount, lastResetDate, now)
       IN  /\ dailyRequestCount' = reset[1]
           /\ lastResetDate' = reset[2]
           /\ resp' = Respond("health",
                              [kind |-> "health", status |-> 200,
                               body |-> IntToText(MAX_REQUESTS_PER_DAY - reset[1])],
                              "none", Absent, Absent, <<>>)
    /\ UNCHANGED <<cache, arkhamEvents, now, inflight, upstreamCalls, sequential,
                   nPush, nTick, nPut, ingested>>

\* the handlers that store an event: server.js:449-468, 513-519, 537-548
Ingest(route, webhookData) ==
    /\ nPush < MaxPush
    /\ nPush' = nPush + 1
    /\ LET event == processArkhamEvent(webhookData, now)
       IN  IF event # <<>>
           THEN /\ arkhamEvents' = addArkhamEvent(arkhamEvents, [n |-> ingested + 1] @@ event[1])
                /\ ingested' = ingested + 1
                /\ resp' = Respond(route, [kind |-> "stored", status |-> 200, body |-> event[1].title],
                                   "none", event[1].symbol, Absent, <<>>)
           ELSE /\ resp' = Respond(route, [kind |-> "rejected", status |-> 400, body |-> <<>>],
                                   "none", Absent, Absent, <<>>)
                /\ UNCHANGED <<arkhamEvents, ingested>>
    /\ UNCHANGED <<cache, dailyRequestCount, lastResetDate, now, inflight, upstreamCalls,
                   sequential, nReq, nTick, nPut>>

\* POST /arkham-webhook
ArkhamWebhook(webhookData) == Ingest("arkham-webhook", webhookData)

\* the canned payload of server.js:501-511 and 525-535
testEvent ==
    [transaction |-> <<[token |-> <<"B", "T", "C">>, asset |-> Absent, symbol |-> Absent,
                        value |-> 5000000]>>,
     alertName |-> <<"L", "a", "r", "g", "e", " ", "B", "T", "C", " ", "T", "r", "a", "n", "s", "f", "e", "r", " ", "A", "l", "e", "r", "t">>,
     description |-> Absent, message |-> Absent]

\* GET and POST /test-webhook
TestWebhook == Ingest("test-webhook", testEvent)

\* the `events` array of the /arkham-events body: server.js:489-494
EventSummaries(events) ==
    [i \in 1..Len(events) |->
        [timestamp |-> events[i].timestamp, symbol |-> events[i].symbol, title |-> events[i].title]]

\* GET /arkham-events?hours=...: server.js:480-496
ArkhamEvents(hours) ==
    /\ nReq < MaxReq
    /\ nReq' = nReq + 1
    /\ LET parsed == parseInt(hours)
           hoursBack == IF parsed = <<>> \/ parsed[1] = 0 THEN RECENT_HOURS ELSE parsed[1]
           events == getRecentArkhamEvents(arkhamEvents, hoursBack, now)
       IN  resp' = Respond("arkham-events",
                           [kind |-> "events", status |-> 200,
                            body |-> [totalEvents |-> Len(arkhamEvents),
                                      recentEvents |-> Len(events),
                                      hoursBack |-> hoursBack,
                                      events |-> EventSummaries(events)]],
                           "none", Absent, Absent, <<>>)
    /\ UNCHANGED <<cache, dailyRequestCount, lastResetDate, arkhamEvents, now, inflight,
                   upstreamCalls, sequential, nPush, nTick, nPut, ingested>>

\* the clock advances by d milliseconds
Tick(d) ==
    /\ nTick < MaxTick
    /\ nTick' = nTick + 1
    /\ now' = now + d
    /\ upstreamCalls' = IF NewDay(now, now + d) THEN 0 ELSE upstreamCalls
    /\ sequential' = IF NewDay(now, now + d) THEN inflight = {} ELSE sequential
    /\ UNCHANGED <<cache, dailyRequestCount, lastResetDate, arkhamEvents, inflight, resp,
                   nReq, nPush, nPut, ingested>>

----------------------------------------------------------------------------
(* Inputs *)

\* the process starts at a local midnight
StartTime == MS_PER_DAY

NoDate == [given |-> FALSE, valid |-> FALSE, ms |-> 0]

ValidDate(ms) == [given |-> TRUE, valid |-> TRUE, ms |-> ms]

\* a date string that new Date() cannot parse
InvalidDate == [given |-> TRUE, valid |-> FALSE, ms |-> 0]

OldArticle ==
    [title |-> <<"B", "T", "C", " ", "u", "p">>, description |-> Absent,
     pubDate |-> ValidDate(StartTime - 3600000), published_at |-> NoDate]

UndatedArticle ==
    [title |-> <<"F", "e", "d", " ", "|", " ", "r", "a", "t", "e", "s", ";", " ", " ", "x">>, description |-> <<"e", "t", "h", "e", "r", "e", "u", "m">>,
     pubDate |-> NoDate, published_at |-> NoDate]

BadDateArticle ==
    [title |-> <<>>, description |-> Absent, pubDate |-> InvalidDate, published_at |-> NoDate]

ArticleLists == {<<>>, <<OldArticle, BadDateArticle, UndatedArticle>>}

RequestSymbols == {Absent, <<"b", "t", "c">>}

RequestKeywords == {Absent}

RequestTimeframes == {Absent}

NoTransaction == <<>>

EmptyPayload ==
    [transaction |-> NoTransaction, alertName |-> Absent, description |-> Absent, message |-> Absent]

Payloads ==
    {EmptyPayload,
     [EmptyPayload EXCEPT !.transaction =
         <<[token |-> Absent, asset |-> <<"e", "t", "h">>, symbol |-> Absent, value |-> 2400]>>]}

ClockSteps == {1, CACHE_DURATION - 1}

----------------------------------------------------------------------------
(* The server after start-up, and its steps *)

Init ==
    /\ cache = <<>>
    /\ dailyRequestCount = 0
    /\ lastResetDate = toDateString(StartTime)
    /\ arkhamEvents = <<>>
    /\ now = StartTime
    /\ inflight = {}
    /\ resp = NoResponse
    /\ upstreamCalls = 0
    /\ sequential = TRUE
    /\ nPut = 0
    /\ ingested = 0
    /\ nReq = 0
    /\ nPush = 0
    /\ nTick = 0

Next ==
    \/ \E s \in RequestSymbols, k \in RequestKeywords, tf \in RequestTimeframes : CryptoNews(s, k, tf)
    \/ \E r \in inflight, a \in ArticleLists : NewsFetchSucceeds(r, a)
    \/ \E r \in inflight : NewsFetchFails(r)
    \/ \E w \in Payloads : ArkhamWebhook(w)
    \/ \E d \in ClockSteps : Tick(d)

Spec == Init /\ [][Next]_vars

----------------------------------------------------------------------------
(* The server one call short of its daily quota: MAX_REQUESTS_PER_DAY - 1 /debug
   requests were answered since midnight, one after another, each by a fetch that
   succeeded *)

InitQuota ==
    /\ cache = <<>>
    /\ dailyRequestCount = MAX_REQUESTS_PER_DAY - 1
    /\ lastResetDate = toDateString(StartTime)
    /\ arkhamEvents = <<>>
    /\ now = StartTime
    /\ inflight = {}
    /\ resp = NoResponse
    /\ upstreamCalls = MAX_REQUESTS_PER_DAY - 1
    /\ sequential = TRUE
    /\ nPut = 0
    /\ ingested = 0
    /\ nReq = 0
    /\ nPush = 0
    /\ nTick = 0

NextQuota ==
    \/ \E s \in RequestSymbols : CryptoNews(s, Absent, Absent)
    \/ \E r \in inflight : NewsFetchSucceeds(r, <<>>)
    \/ \E r \in inflight : NewsFetchFails(r)
    \/ Debug(Absent, Absent, Absent)
    \/ \E r \in inflight : DebugFetchSucceeds(r, <<>>)
    \/ \E r \in inflight : DebugFetchFails(r)
    \/ Health
    \/ TestWebhook
    \/ Tick(MS_PER_DAY)

SpecQuota == InitQuota /\ [][NextQuota]_vars

----------------------------------------------------------------------------
(* The server with its event buffer one short of full: /test-webhook was called
   MAX_ARKHAM_EVENTS - 1 times at start-up *)

InitBuffer ==
    /\ cache = <<>>
    /\ dailyRequestCount = 0
    /\ lastResetDate = toDateString(StartTime)
    /\ arkhamEvents = [i \in 1..(MAX_ARKHAM_EVENTS - 1) |->
                          [n |-> MAX_ARKHAM_EVENTS - i] @@ processArkhamEvent(testEvent, StartTime)[1]]
    /\ now = StartTime
    /\ inflight = {}
    /\ resp = NoResponse
    /\ upstreamCalls = 0
    /\ sequential = TRUE
    /\ nPut = 0
    /\ ingested = MAX_ARKHAM_EVENTS - 1
    /\ nReq = 0
    /\ nPush = 0
    /\ nTick = 0

BufferClockSteps == {1000, RECENT_HOURS * 3600 * 1000 - 1000}

NextBuffer ==
    \/ \E w \in Payloads : ArkhamWebhook(w)
    \/ TestWebhook
    \/ \E d \in BufferClockSteps : Tick(d)

SpecBuffer == InitBuffer /\ [][NextBuffer]_vars

----------------------------------------------------------------------------
(* The server with a full cache: MAX_CACHE_ENTRIES keys were requested and fetched,
   the first half at start-up (stale by now), the second half CACHE_DURATION later
   (fresh); the requests that follow arrive within the same millisecond *)

KeywordsOf(i) == NatToText(i)

InitCache ==
    /\ cache = [i \in 1..MAX_CACHE_ENTRIES |->
                   [key |-> generateCacheKey(Absent, KeywordsOf(i), Absent),
                    data |-> <<>>, articles |-> <<>>,
                    timestamp |-> IF 2 * i <= MAX_CACHE_ENTRIES THEN StartTime
                                  ELSE StartTime + CACHE_DURATION,
                    ins |-> i]]
    /\ dailyRequestCount = MAX_CACHE_ENTRIES
    /\ lastResetDate = toDateString(StartTime)
    /\ arkhamEvents = <<>>
    /\ now = StartTime + CACHE_DURATION
    /\ inflight = {}
    /\ resp = NoResponse
    /\ upstreamCalls = MAX_CACHE_ENTRIES
    /\ sequential = TRUE
    /\ nPut = MAX_CACHE_ENTRIES
    /\ ingested = 0
    /\ nReq = 0
    /\ nPush = 0
    /\ nTick = 0

\* keywords of the oldest key (stale), of the newest key (fresh), and of two new keys
CacheKeywords ==
    {KeywordsOf(1), KeywordsOf(MAX_CACHE_ENTRIES), KeywordsOf(MAX_CACHE_ENTRIES + 1),
     KeywordsOf(MAX_CACHE_ENTRIES + 2)}

NextCache ==
    \/ \E k \in CacheKeywords : CryptoNews(Absent, k, Absent)
    \/ \E r \in inflight, a \in ArticleLists : NewsFetchSucceeds(r, a)
    \/ \E r \in inflight : NewsFetchFails(r)

SpecCache == InitCache /\ [][NextCache]_vars

----------------------------------------------------------------------------
(* The cache and the clock alone: requests for one key, fetches that bring no
   article, and clock steps on both sides of CACHE_DURATION *)

NextFresh ==
    \/ CryptoNews(Absent, Absent, Absent)
    \/ \E r \in inflight : NewsFetchSucceeds(r, <<>>)
    \/ \E r \in inflight : NewsFetchFails(r)
    \/ \E d \in ClockSteps : Tick(d)

SpecFresh == Init /\ [][NextFresh]_vars

----------------------------------------------------------------------------
(* The server a day and CACHE_DURATION after start-up: /test-webhook was called at
   start-up (its event has left the 24-hour window), and one /crypto-news request
   without symbols was fetched a day later (its entry is stale by now).  Requests and
   webhooks follow within the same millisecond *)

FeedFetchTime == StartTime + RECENT_HOURS * 3600 * 1000

InitFeed ==
    /\ arkhamEvents = <<[n |-> 1] @@ processArkhamEvent(testEvent, StartTime)[1]>>
    /\ cache = <<[key |-> generateCacheKey(Absent, Absent, Absent),
                  data |-> FreshBody(<<OldArticle>>, Absent, arkhamEvents, FeedFetchTime),
                  articles |-> <<OldArticle>>, timestamp |-> FeedFetchTime, ins |-> 1]>>
    /\ dailyRequestCount = 1
    /\ lastResetDate = toDateString(FeedFetchTime)
    /\ now = FeedFetchTime + CACHE_DURATION
    /\ inflight = {}
    /\ resp = NoResponse
    /\ upstreamCalls = 1
    /\ sequential = TRUE
    /\ nPut = 1
    /\ ingested = 1
    /\ nReq = 0
    /\ nPush = 0
    /\ nTick = 0

NextFeed ==
    \/ \E s \in RequestSymbols : CryptoNews(s, Absent, Absent)
    \/ \E r \in inflight : NewsFetchSucceeds(r, <<OldArticle>>)
    \/ \E r \in inflight : NewsFetchFails(r)
    \/ \E w \in Payloads : ArkhamWebhook(w)

SpecFeed == InitFeed /\ [][NextFeed]_vars

----------------------------------------------------------------------------
(* Input validation, from the state above (a cached entry, a buffered event, one
   counted call): requests without symbols, with five symbols and with six empty
   entries, and clock steps of a day, after which the next counted request resets the
   daily counter *)

FiveSymbols == <<"a", ",", "b", ",", "c", ",", "d", ",", "e">>

SixEntries == <<",", ",", ",", ",", ",">>

ValidationSymbols == {Absent, FiveSymbols, SixEntries}

NextValidation ==
    \/ \E s \in ValidationSymbols : CryptoNews(s, Absent, Absent)
    \/ \E r \in inflight : NewsFetchSucceeds(r, <<>>)
    \/ \E r \in inflight : NewsFetchFails(r)
    \/ Tick(MS_PER_DAY)

SpecValidation == InitFeed /\ [][NextValidation]_vars

----------------------------------------------------------------------------
(* The event routes from start-up: webhooks, test webhooks and reads of
   /arkham-events, with clock steps that add up to the 24-hour window *)

\* req.body of /arkham-webhook: the payloads above, and one whose description is a number
EventPayloads == Payloads \cup {[EmptyPayload EXCEPT !.description = NotAString]}

\* req.query.hours of /arkham-events
EventHours == {Absent, <<"4", "8">>}

NextEvents ==
    \/ \E w \in EventPayloads : ArkhamWebhook(w)
    \/ TestWebhook
    \/ \E h \in EventHours : ArkhamEvents(h)
    \/ \E d \in BufferClockSteps : Tick(d)

SpecEvents == Init /\ [][NextEvents]_vars

----------------------------------------------------------------------------
(* The symbol filter on events: fetches bring no article; the buffer receives test
   events (BTC), events without a ticker (CRYPTO) and ETH events; requests come
   without symbols, for btc and for eth *)

FilterSymbols == RequestSymbols \cup {<<"e", "t", "h">>}

NextFilter ==
    \/ \E s \in FilterSymbols : CryptoNews(s, Absent, Absent)
    \/ \E r \in inflight : NewsFetchSucceeds(r, <<>>)
    \/ \E r \in inflight : NewsFetchFails(r)
    \/ \E w \in Payloads : ArkhamWebhook(w)
    \/ TestWebhook

SpecFilter == Init /\ [][NextFilter]_vars

----------------------------------------------------------------------------
(* Repeated reads of one key: the fetch brings an article without a publish date,
   test webhooks arrive, and the clock moves within a second or by nearly
   CACHE_DURATION *)

NextRepeat ==
    \/ CryptoNews(Absent, Absent, Absent)
    \/ \E r \in inflight : NewsFetchSucceeds(r, <<UndatedArticle>>)
    \/ TestWebhook
    \/ \E d \in ClockSteps : Tick(d)

SpecRepeat == Init /\ [][NextRepeat]_vars

----------------------------------------------------------------------------
(* Titles: articles and webhook payloads whose titles carry delimiters, runs of
   white space and more than MAX_TITLE_LENGTH characters *)

\* "BTC soars!|; up 10%"
DelimiterTitle ==
    <<"B", "T", "C", " ", "s", "o", "a", "r", "s", "!", "|", ";", " ", "u", "p", " ", "1", "0", "%">>

\* MAX_TITLE_LENGTH + 1 letters
LongTitle == [i \in 1..(MAX_TITLE_LENGTH + 1) |-> "a"]

\* a title whose character number MAX_TITLE_LENGTH is a space, between letters
SpacedTitle == [i \in 1..(MAX_TITLE_LENGTH + 1) |-> IF i = MAX_TITLE_LENGTH THEN " " ELSE "a"]

TitledArticle(title) ==
    [title |-> title, description |-> Absent, pubDate |-> NoDate, published_at |-> NoDate]

TitleArticleLists ==
    {<<TitledArticle(<<" ", "\t">> \o DelimiterTitle \o <<" ">>)>>, <<TitledArticle(LongTitle)>>}

TitlePayloads ==
    {[EmptyPayload EXCEPT !.alertName = DelimiterTitle \o <<" ", " ">>],
     [EmptyPayload EXCEPT !.description = LongTitle],
     [EmptyPayload EXCEPT !.message = SpacedTitle],
     [EmptyPayload EXCEPT !.alertName = LongTitle]}

NextTitles ==
    \/ CryptoNews(Absent, Absent, Absent)
    \/ \E r \in inflight, a \in TitleArticleLists : NewsFetchSucceeds(r, a)
    \/ \E w \in TitlePayloads : ArkhamWebhook(w)

SpecTitles == Init /\ [][NextTitles]_vars

----------------------------------------------------------------------------
(* Record structure: webhook payloads whose transaction names a ticker with a
   delimiter in it, beside the payloads above *)

TickerPayload(ticker) ==
    [EmptyPayload EXCEPT !.transaction =
        <<[token |-> ticker, asset |-> Absent, symbol |-> Absent, value |-> 0]>>]

RecordPayloads ==
    Payloads \cup {TickerPayload(<<"e", ";", "t", "h">>), TickerPayload(<<"x", "|", "y">>)}

NextRecords ==
    \/ CryptoNews(Absent, Absent, Absent)
    \/ \E r \in inflight : NewsFetchSucceeds(r, <<OldArticle>>)
    \/ \E r \in inflight : NewsFetchFails(r)
    \/ \E w \in RecordPayloads : ArkhamWebhook(w)

SpecRecords == Init /\ [][NextRecords]_vars

----------------------------------------------------------------------------
(* Properties *)

\* the last response is the text feed of /crypto-news (or its 503)
FeedResponse == resp.route = "news" /\ resp.kind \in {"hit", "fresh", "stale", "onchain", "unavailable"}

\* the records of a feed body
BodyRecords(body) == IF body = <<>> THEN <<>> ELSE split(body, "|")

\* C3: whenever the upstream fetch of a /crypto-news request fails and the cache holds
\* an entry for the request's key, the response is a 200 whose body is the format of
\* that entry's articles merged with the event buffer as it is at response time.
C3_StaleServedOnFailure ==
    (resp.route = "news" /\ resp.cause = "upstream" /\ CacheGet(cache, resp.cacheKey) # <<>>)
        => /\ resp.status = 200
           /\ resp.body = formatForPineScript(CacheGet(cache, resp.cacheKey)[1].articles,
                                              resp.symbols, arkhamEvents, resp.at)

\* C4: a /crypto-news request is answered 503 if and only if the upstream fetch failed,
\* the cache holds no entry for the key and the on-chain-only output is empty; every
\* other upstream failure is answered 200.
C4_UnavailableIffNothingToServe ==
    FeedResponse =>
        /\ resp.status = 503 <=>
               /\ resp.cause # "none"
               /\ CacheGet(cache, resp.cacheKey) = <<>>
               /\ formatForPineScript(<<>>, resp.symbols, arkhamEvents, resp.at) = <<>>
        /\ resp.status \in {200, 503}

\* C8: an entry is fresh exactly while now - timestamp < 30 minutes: right after a put
\* the entry of the key is fresh, a request is served from the cache only while its
\* entry is fresh and goes upstream only when the entry is absent or no longer fresh,
\* a failed fetch is answered from the entry looked up whatever its age, and no step
\* other than a put changes the cache (the passing of time removes nothing).
C8_Freshness ==
    /\ [](/\ (resp.route = "news" /\ resp.kind = "fresh") =>
                 /\ CacheGet(cache, resp.cacheKey) # <<>>
                 /\ resp.at - CacheGet(cache, resp.cacheKey)[1].timestamp < CACHE_DURATION
          /\ (resp.route = "news" /\ resp.kind = "hit") =>
                 /\ resp.cachedData # <<>>
                 /\ resp.at - resp.cachedData[1].timestamp < CACHE_DURATION
          /\ \A r \in inflight :
                 r.route = "news" =>
                     \/ r.cachedData = <<>>
                     \/ r.at - r.cachedData[1].timestamp >= CACHE_DURATION
          /\ (resp.route = "news" /\ resp.cause = "upstream" /\ resp.cachedData # <<>>) =>
                 resp.kind = "stale" /\ resp.status = 200)
    /\ [][nPut' = nPut => cache' = cache]_vars

\* a failed fetch was answered from an entry at least 30 minutes old that is still in the cache
C8_Witness ==
    /\ resp.route = "news" /\ resp.kind = "stale"
    /\ resp.at - resp.cachedData[1].timestamp >= CACHE_DURATION
    /\ CacheGet(cache, resp.cacheKey) = resp.cachedData

\* the timestamps of records, read as the sort reads them
RecordTimestamps(records) == [i \in 1..Len(records) |-> parseInt(split(records[i], ";")[1])]

\* C9: the records of the format output, split on '|' and read left to right, have
\* timestamps in non-increasing order (checked here on the records whose timestamp
\* reads as a number).
C9_OutputOrdered ==
    (FeedResponse /\ resp.status = 200) =>
        LET ts == RecordTimestamps(BodyRecords(resp.body))
        IN  \A i, j \in 1..Len(ts) :
                (i < j /\ ts[i] # <<>> /\ ts[j] # <<>>) => ts[i][1] >= ts[j][1]

\* whether `record` is one of the '|'-delimited stretches of body
Occurs(record, body) ==
    \E p \in 0..(Len(body) - Len(record)) :
        /\ SubSeq(body, p + 1, p + Len(record)) = record
        /\ p = 0 \/ body[p] = "|"
        /\ p + Len(record) = Len(body) \/ body[p + Len(record) + 1] = "|"

\* the record a response shows for an event: timestamp;ONCHAIN;symbol;title
EventRecord(event) ==
    join(<<IntToText(event.timestamp), <<"O", "N", "C", "H", "A", "I", "N">>, event.symbol, event.title>>, ";")

\* the requested symbols, upper-cased and trimmed, as a set
Requested(symbols) == {trim(piece) : piece \in Range(split(toUpperCase(symbols), ","))}

\* an event a /crypto-news response has to show: inside the 24-hour window at the time
\* of the response and passing the symbol filter of the request
Qualifies(event, symbols, t) ==
    /\ event.timestamp > (t \div 1000) - RECENT_HOURS * 3600
    /\ symbols = Absent \/ event.symbol = CRYPTO \/ event.symbol \in Requested(symbols)

\* C10: every buffered on-chain event inside the 24-hour window that passes the symbol
\* filter appears in the /crypto-news response, on every path that answers (cache hit,
\* stale entry after a failure, new fetch, on-chain-only fallback, 503).
C10_EventsAppear ==
    FeedResponse =>
        \A i \in 1..Len(arkhamEvents) :
            Qualifies(arkhamEvents[i], resp.symbols, resp.at) =>
                Occurs(EventRecord(arkhamEvents[i]), resp.body)

\* a cache hit for requested symbols whose response has to show an event that the
\* text stored with the entry does not show, while the buffer also holds an event
\* outside the window and one the filter drops
C10_Witness ==
    /\ resp.route = "news" /\ resp.kind = "hit" /\ resp.symbols # Absent
    /\ \E i \in 1..Len(arkhamEvents) :
           /\ Qualifies(arkhamEvents[i], resp.symbols, resp.at)
           /\ ~Occurs(EventRecord(arkhamEvents[i]), resp.cachedData[1].data)
    /\ \E i \in 1..Len(arkhamEvents) :
           arkhamEvents[i].timestamp <= (resp.at \div 1000) - RECENT_HOURS * 3600
    /\ \E i \in 1..Len(arkhamEvents) :
           /\ arkhamEvents[i].timestamp > (resp.at \div 1000) - RECENT_HOURS * 3600
           /\ ~Qualifies(arkhamEvents[i], resp.symbols, resp.at)

\* C1: within one calendar day the number of requests issued to the upstream provider
\* never exceeds the daily quota, whatever the interleaving of /crypto-news and /debug
\* requests and whether fetches succeed or fail.
C1_QuotaNeverExceeded == upstreamCalls <= MAX_REQUESTS_PER_DAY

\* C2: with requests issued one after another within a calendar day, at most quota
\* upstream calls are permitted, a call is denied only once quota calls were issued,
\* and once the counter was reset for the day it counts the calls of that day.
C2_SequentialQuota ==
    sequential =>
        /\ upstreamCalls <= MAX_REQUESTS_PER_DAY
        /\ (resp.cause = "rate-limit" /\ toDateString(resp.at) = toDateString(now))
               => upstreamCalls = MAX_REQUESTS_PER_DAY
        /\ lastResetDate = toDateString(now) => dailyRequestCount <= upstreamCalls

\* C5: a /crypto-news request whose upstream call is denied by the daily quota is
\* answered with a success response, never with a 5xx status.
C5_DeniedIsNot5xx ==
    (resp.route = "news" /\ resp.cause = "rate-limit") => resp.status = 200

\* C6: the event buffer never holds more than MAX_ARKHAM_EVENTS events and holds the
\* most recently stored ones, newest first: the i-th event is the i-th latest stored,
\* so what a push over capacity drops is the event stored earliest.
C6_BufferKeepsNewest ==
    /\ Len(arkhamEvents) = Min(ingested, MAX_ARKHAM_EVENTS)
    /\ \A i \in 1..Len(arkhamEvents) : arkhamEvents[i].n = ingested - i + 1

\* the buffer is full and has dropped events
C6_Witness == Len(arkhamEvents) = MAX_ARKHAM_EVENTS /\ ingested > MAX_ARKHAM_EVENTS

CacheKeys(c) == {c[i].key : i \in 1..Len(c)}

\* C7: the cache never holds more than MAX_CACHE_ENTRIES entries (one per key, in the
\* order in which their keys were first inserted); a step that changes it removes at
\* most one key, only from a full cache into which a new key is put, and the key
\* removed is the one inserted earliest, never the key just put.
C7_CacheBounded ==
    /\ [](/\ Len(cache) <= MAX_CACHE_ENTRIES
          /\ \A i, j \in 1..Len(cache) :
                 i < j => cache[i].key # cache[j].key /\ cache[i].ins < cache[j].ins)
    /\ [][cache' # cache =>
            LET gone == {i \in 1..Len(cache) : cache[i].key \notin CacheKeys(cache')}
                put == resp'.cacheKey
            IN  /\ put \in CacheKeys(cache')
                /\ Cardinality(gone) <= 1
                /\ gone # {} <=> (Len(cache) = MAX_CACHE_ENTRIES /\ put \notin CacheKeys(cache))
                /\ \A i \in gone :
                       /\ cache[i].key # put
                       /\ \A j \in 1..Len(cache) : cache[i].ins <= cache[j].ins
                /\ \A i \in 1..Len(cache) \ gone :
                       cache[i].key # put => cache[i] \in Range(cache')]_vars

\* the oldest key was overwritten, which did not move it, and then evicted by the put
\* of a new key
C7_Witness ==
    /\ Len(cache) = MAX_CACHE_ENTRIES
    /\ nPut = MAX_CACHE_ENTRIES + 2
    /\ CacheGet(cache, generateCacheKey(Absent, KeywordsOf(1), Absent)) = <<>>
    /\ CacheGet(cache, generateCacheKey(Absent, KeywordsOf(2), Absent)) # <<>>

\* a payload with at least one of the fields ingestion reads
Usable(webhookData) ==
    \/ webhookData.transaction # NoTransaction
    \/ webhookData.alertName # Absent
    \/ webhookData.description # Absent
    \/ webhookData.message # Absent

\* C11: webhook ingestion yields no event for a payload with none of the usable fields
\* (no transaction, no alert.name, no description, no message): /arkham-webhook answers
\* 200 and stores an event only for a payload with something usable, so every stored
\* event comes from such a payload, and a 400 answer stores nothing.
C11_UnusablePayloadRejected ==
    /\ \A i \in 1..Len(arkhamEvents) : Usable(arkhamEvents[i].raw)
    /\ resp.route = "arkham-webhook" =>
           \/ resp.status = 200 /\ resp.kind = "stored" /\ Usable(arkhamEvents[1].raw)
           \/ resp.status = 400 /\ resp.kind = "rejected"

\* the number of comma-separated entries of a symbols parameter
Entries(symbols) == Cardinality({i \in 1..Len(symbols) : symbols[i] = ","}) + 1

\* C12: a /crypto-news request is rejected with a 400 exactly when its symbols
\* parameter lists more than 5 entries; such a request never waits for a fetch, and
\* the step that answers it at once with the 400 changes nothing: no upstream call is
\* issued, and the daily counter, the reset day, the cache and the event buffer are as
\* they were.
C12_RejectionHasNoEffect ==
    /\ [](resp.route = "news" =>
              ((resp.kind = "invalid" /\ resp.status = 400)
                   <=> (resp.symbols # Absent /\ Entries(resp.symbols) > MAX_SYMBOLS)))
    /\ [](\A r \in inflight : r.symbols = Absent \/ Entries(r.symbols) <= MAX_SYMBOLS)
    /\ [][(nReq' # nReq /\ inflight' = inflight /\ resp'.kind = "invalid") =>
              UNCHANGED <<cache, dailyRequestCount, lastResetDate, arkhamEvents,
                          upstreamCalls, nPut, ingested>>]_vars

\* a request was rejected on a day the counter has not been reset for yet, with a
\* cached entry and a buffered event
C12_Witness ==
    /\ resp.route = "news" /\ resp.kind = "invalid" /\ resp.at = now
    /\ lastResetDate # toDateString(now) /\ dailyRequestCount > 0
    /\ cache # <<>> /\ arkhamEvents # <<>>

\* whether an event lies inside the 24-hour window at clock value t
InWindow(event, t) == event.timestamp > (t \div 1000) - RECENT_HOURS * 3600

BTC == <<"B", "T", "C">>

\* C13: in a /crypto-news response built from no articles, a buffered event inside the
\* window is shown as timestamp;ONCHAIN;SYMBOL;Title if and only if the request names
\* no symbols, or names the event's symbol, or the event's symbol is CRYPTO; with a
\* single buffered BTC event the body is exactly that record for symbols btc and the
\* empty string for symbols eth.
C13_EventFilter ==
    FeedResponse =>
        /\ \A i \in 1..Len(arkhamEvents) :
               InWindow(arkhamEvents[i], resp.at) =>
                   (Occurs(EventRecord(arkhamEvents[i]), resp.body)
                        <=> \/ resp.symbols = Absent
                            \/ arkhamEvents[i].symbol \in Requested(resp.symbols)
                            \/ arkhamEvents[i].symbol = CRYPTO)
        /\ (Len(arkhamEvents) = 1 /\ arkhamEvents[1].symbol = BTC) =>
               /\ resp.symbols = <<"b", "t", "c">> => resp.body = EventRecord(arkhamEvents[1])
               /\ resp.symbols = <<"e", "t", "h">> => resp.body = <<>>

\* a request for eth was answered while the buffer held a BTC event (dropped) and an
\* event with the sentinel symbol (shown)
C13_Witness ==
    /\ FeedResponse /\ resp.symbols = <<"e", "t", "h">>
    /\ Len(arkhamEvents) = 2
    /\ \E i, j \in 1..2 :
           /\ arkhamEvents[i].symbol = BTC /\ ~Occurs(EventRecord(arkhamEvents[i]), resp.body)
           /\ arkhamEvents[j].symbol = CRYPTO /\ Occurs(EventRecord(arkhamEvents[j]), resp.body)

\* C14: /arkham-events returns exactly the buffered events whose timestamp is at or
\* after now - hours * 3600 (an event exactly at the cutoff included), in buffer order,
\* and the read leaves the buffer as it was.
C14_RecentInclusive ==
    resp.route = "arkham-events" =>
        LET cutoffTime == (resp.at \div 1000) - resp.body.hoursBack * 3600
            AtOrAfter(event) == event.timestamp >= cutoffTime
        IN  /\ resp.body.events = EventSummaries(SelectSeq(arkhamEvents, AtOrAfter))
            /\ resp.body.totalEvents = Len(arkhamEvents)

\* this step answers a /crypto-news request from the cache, the response before it
\* was a /crypto-news answer for the same key and symbols built from the same entry
\* (so the same articles), and no event was pushed in between
RepeatedRead ==
    /\ nReq' = nReq + 1 /\ inflight' = inflight
    /\ resp'.route = "news" /\ resp'.kind = "hit"
    /\ resp.route = "news" /\ resp.kind \in {"fresh", "hit"}
    /\ resp'.cacheKey = resp.cacheKey /\ resp'.symbols = resp.symbols

\* C15 as claimed: formatting twice with identical articles, symbols and buffer
\* contents yields identical output, and the second call leaves the buffer, the cache
\* and the daily counter unchanged.
C15_FormatIdempotent ==
    [][RepeatedRead =>
           /\ resp'.body = resp.body
           /\ UNCHANGED <<arkhamEvents, cache, dailyRequestCount>>]_vars

\* C15 as amended: formatting twice within the same clock second with identical
\* articles, symbols and buffer contents yields identical output, and the second call
\* leaves the buffer, the cache and the daily counter unchanged.
C15_FormatIdempotentSameSecond ==
    [][RepeatedRead =>
           /\ resp'.at \div 1000 = resp.at \div 1000 => resp'.body = resp.body
           /\ UNCHANGED <<arkhamEvents, cache, dailyRequestCount>>]_vars

\* a hit later in the second in which its entry was fetched, with an event in the buffer
\* and an article stamped with the current time, answered as the fetch was
C15_Witness ==
    /\ resp.route = "news" /\ resp.kind = "hit"
    /\ resp.at > resp.cachedData[1].timestamp
    /\ resp.at \div 1000 = resp.cachedData[1].timestamp \div 1000
    /\ arkhamEvents # <<>>
    /\ resp.cachedData[1].articles = <<UndatedArticle>>
    /\ resp.body = resp.cachedData[1].data
    /\ Len(BodyRecords(resp.body)) = 2

\* a title as the sanitisation is to leave it
Sanitized(title) ==
    /\ \A i \in 1..Len(title) : title[i] \notin {"|", ";"}
    /\ \A i \in 1..(Len(title) - 1) : ~(title[i] \in WhiteSpace /\ title[i + 1] \in WhiteSpace)
    /\ title # <<>> => (title[1] \notin WhiteSpace /\ title[Len(title)] \notin WhiteSpace)
    /\ Len(title) <= MAX_TITLE_LENGTH

\* the title field of a record: what follows its third ';'
TitleField(record) ==
    LET fields == split(record, ";")
    IN  join(SubSeq(fields, 4, Len(fields)), ";")

\* C16: every title written into a record, by the article formatter and by webhook
\* ingestion alike, has no '|' and no ';', no run of white space, no white space at
\* either end, and at most 100 characters.
C16_TitlesSanitized ==
    /\ \A i \in 1..Len(arkhamEvents) : Sanitized(arkhamEvents[i].title)
    /\ (FeedResponse /\ resp.status = 200) =>
           LET records == BodyRecords(resp.body)
           IN  \A i \in 1..Len(records) : Sanitized(TitleField(records[i]))

\* whether cache c holds an entry for key that is fresh at clock value t
HoldsFresh(c, key, t) ==
    CacheGet(c, key) # <<>> /\ t - CacheGet(c, key)[1].timestamp < CACHE_DURATION

\* C17: a /crypto-news request answered from the cache found a fresh entry for its key
\* and changes neither the daily counter, the reset day nor the cache, and issues no
\* upstream call; a request goes upstream (or is denied by the quota) only when the
\* entry of its key is absent or no longer fresh.
C17_HitHasNoEffect ==
    [][nReq' = nReq + 1 =>
           /\ (inflight' = inflight /\ resp'.route = "news" /\ resp'.kind = "hit") =>
                  /\ HoldsFresh(cache, resp'.cacheKey, now)
                  /\ resp'.cachedData = CacheGet(cache, resp'.cacheKey)
                  /\ UNCHANGED <<cache, dailyRequestCount, lastResetDate, upstreamCalls, nPut>>
           /\ \A r \in inflight' \ inflight :
                  r.route = "news" => ~HoldsFresh(cache, r.cacheKey, now)
           /\ (inflight' = inflight /\ resp'.route = "news" /\ resp'.cause = "rate-limit") =>
                  ~HoldsFresh(cache, resp'.cacheKey, now)
           /\ upstreamCalls' # upstreamCalls => inflight' # inflight]_vars

\* the second request was answered from the entry the first one fetched, some time
\* after the fetch, and one upstream call was made and counted
C17_Witness ==
    /\ resp.route = "news" /\ resp.kind = "hit"
    /\ resp.at > resp.cachedData[1].timestamp
    /\ nReq = 2 /\ upstreamCalls = 1 /\ dailyRequestCount = 1 /\ nPut = 1 /\ inflight = {}

\* the unix second a NEWS record is to carry for an article formatted at clock value t
PublishSecond(article, t) ==
    IF article.pubDate.given /\ article.pubDate.valid THEN article.pubDate.ms \div 1000
    ELSE IF article.published_at.given /\ article.published_at.valid
         THEN article.published_at.ms \div 1000
    ELSE t \div 1000

\* the timestamp fields of the NEWS records of a body
NewsStamps(body) ==
    LET records == BodyRecords(body)
    IN  {split(records[i], ";")[1] : i \in {j \in 1..Len(records) : split(records[j], ";")[2] = <<"N", "E", "W", "S">>}}

\* C18: the timestamp field of every NEWS record is an integer number of unix seconds,
\* and in the answer to a new fetch the timestamps are those of the fetched articles:
\* the publish time where it is present and parsable, the current time otherwise.
C18_NewsTimestampsNumeric ==
    (FeedResponse /\ resp.status = 200) =>
        /\ \A stamp \in NewsStamps(resp.body) :
               stamp # <<>> /\ \A i \in 1..Len(stamp) : stamp[i] \in Range(Digits)
        /\ (resp.kind = "fresh" /\ CacheGet(cache, resp.cacheKey) # <<>>) =>
               NewsStamps(resp.body) =
                   {IntToText(PublishSecond(article, resp.at)) :
                        article \in Range(CacheGet(cache, resp.cacheKey)[1].articles)}

\* C19: the stored daily request count is always between 0 and the quota, whatever the
\* interleaving of requests whose fetches overlap, so the remainingRequests figure of
\* /health is never negative.
C19_CountWithinQuota ==
    /\ dailyRequestCount \in 0..MAX_REQUESTS_PER_DAY
    /\ resp.route = "health" => Head(resp.body) # "-"

\* the articles a feed response was formatted from
ArticlesOf(r) ==
    IF r.kind = "fresh" THEN CacheGet(cache, r.cacheKey)[1].articles
    ELSE IF r.kind \in {"hit", "stale"} THEN r.cachedData[1].articles
    ELSE <<>>

\* C20: in every /crypto-news body each record splits on ';' into exactly four fields,
\* the second being NEWS or ONCHAIN, and the body splits on '|' into one piece per
\* emitted record (one per article, one per buffered event inside the window that
\* passes the filter): no symbol and no title carries a delimiter.
C20_RecordsWellFormed ==
    (FeedResponse /\ resp.status = 200 /\ (resp.kind = "fresh" => CacheGet(cache, resp.cacheKey) # <<>>)) =>
        LET records == BodyRecords(resp.body)
            shown == {i \in 1..Len(arkhamEvents) : Qualifies(arkhamEvents[i], resp.symbols, resp.at)}
        IN  /\ \A i \in 1..Len(records) :
                   /\ Len(split(records[i], ";")) = 4
                   /\ split(records[i], ";")[2] \in {<<"N", "E", "W", "S">>, <<"O", "N", "C", "H", "A", "I", "N">>}
            /\ Len(records) = Len(ArticlesOf(resp)) + Cardinality(shown)

====
